---- MODULE Spec2Model ----
(***************************************************************************)
(* Model of check/command/command.go: the "command" check of maddy.        *)
(* A Check is configured once (New, then Init) and then shared by the       *)
(* per-message states; each state records the sender and the recipients     *)
(* and, at the configured stage, expands the argument template, runs the    *)
(* external program and classifies the way it ended.                        *)
(*                                                                         *)
(* Strings are modelled as sequences of atoms: "" is <<>>, concatenation    *)
(* is \o.  An optional value (a Go pointer or interface that may be nil)    *)
(* is a sequence of length 0 or 1.                                          *)
(***************************************************************************)
EXTENDS Integers, Sequences, FiniteSets, TLC

VARIABLES
    check,   \* the shared Check: phase, stage, actions, cmd, cmdArgs
    states,  \* per transaction: the state struct (msgMeta, mailFrom, rcpts)
    call,    \* per transaction: the handler in progress and the locals of run
    child,   \* per transaction: the number of child processes started
    events,  \* per transaction: the events the host has delivered, in order
    result   \* per transaction: the CheckResult of the last returned handler

vars == <<check, states, call, child, events, result>>

----------------------------------------------------------------------------
(* Bounds of the model. *)

MaxRcpts == 2
MaxNodes == 1

Txns == {1}

Senders == {"s@y.test"}

Addrs == {"a@x.test", "b@x.test"}

----------------------------------------------------------------------------
(* Strings. *)

Str(a) == <<a>>

RECURSIVE Join(_, _)
\* strings.Join(elems, sep)
Join(elems, sep) ==
    IF Len(elems) = 0 THEN <<>>
    ELSE IF Len(elems) = 1 THEN elems[1]
    ELSE elems[1] \o sep \o Join(Tail(elems), sep)

Some(x) == <<x>>
None == <<>>

----------------------------------------------------------------------------
(* Stages (command.go:30-35). *)

StageConnection == "conn"
StageSender == "sender"
StageRcpt == "rcpt"
StageBody == "body"

Stages == {StageConnection, StageSender, StageRcpt, StageBody}

(* placeholderRe (command.go:37): the pieces of an argument that match     *)
(* `{[a-zA-Z0-9_]+?}`.  An argument of the template is a sequence of        *)
(* pieces; every other piece ("-a", "/", "{}", "{a-b}") is literal text.    *)
placeholderRe ==
    {"{auth_user}", "{source_ip}", "{source_host}", "{source_rdns}",
     "{msg_id}", "{sender}", "{rcpts}", "{address}", "{bogus}", "{rcpt}"}

----------------------------------------------------------------------------
(* check.FailAction and the default table of New (command.go:52-59). *)

FailAction(reject, quarantine, override) ==
    [Reject |-> reject, Quarantine |-> quarantine, ReasonOverride |-> override]

\* a table seeded with the two actions the wrong way round
DefaultActionsSwapped ==
    (1 :> FailAction(FALSE, TRUE, None)) @@ (2 :> FailAction(TRUE, FALSE, None))

DefaultActions ==
    (1 :> FailAction(TRUE, FALSE, None)) @@ (2 :> FailAction(FALSE, TRUE, None))

(* The inline arguments New is given: the command name, then the         *)
(* argument template. *)
InlineArgs ==
    { << <<"/bin/check">>, <<"-a">>, <<"{address}">>, <<"{rcpts}">>,
         <<"{sender}", "/", "{address}">>,
         <<"{source_rdns}">>, <<"{source_host}">>,
         <<"{auth_user}", "{source_ip}", "{msg_id}">>,
         <<"{bogus}", "{}", "{rcpt}">> >> }

\* New (command.go:49-70), for len(inlineArgs) > 0.  given is not a field of
\* Check: it keeps what the configuration Init accepted says about each exit
\* code (see CodeDirectives).
New(inlineArgs) ==
    [phase |-> "new",
     stage |-> "",
     actions |-> DefaultActions,
     given |-> <<>>,
     cmd |-> inlineArgs[1],
     cmdArgs |-> Tail(inlineArgs)]

----------------------------------------------------------------------------
(* Check.Init (command.go:80-118). *)

\* strconv.Atoi on the decimal strings the configurations below use
Atoi(s) ==
    CASE s = "-1" -> Some(-1)
      [] s = "0" -> Some(0)
      [] s = "1" -> Some(1)
      [] s = "2" -> Some(2)
      [] s = "3" -> Some(3)
      [] OTHER -> None

\* check.ParseActionDirective: <action> [message]
ParseActionDirective(args) ==
    IF Len(args) = 0 \/ args[1] \notin {"reject", "quarantine", "pass-through"}
    THEN None
    ELSE Some(FailAction(args[1] = "reject", args[1] = "quarantine",
                         IF Len(args) > 1 THEN Some(Str(args[2])) ELSE None))

\* the directives a configuration may hold: valid code directives, and
\* directives Init refuses
Nodes ==
    {[Name |-> "code", Args |-> a] :
        a \in {<<"-1", "reject">>, <<"0", "reject">>, <<"1", "pass-through">>,
                <<"3", "quarantine", "spam suspected">>,
                <<"x", "reject">>, <<"1", "drop">>, <<"1">>}}
    \cup {[Name |-> "timeout", Args |-> <<"5s">>]}

RECURSIVE NodeSeqs(_)
NodeSeqs(n) ==
    IF n = 0 THEN {<<>>}
    ELSE LET shorter == NodeSeqs(n - 1)
         IN shorter \cup {Append(q, x) : q \in {r \in shorter : Len(r) = n - 1}, x \in Nodes}

\* the run_on values a configuration may give; None is "not given"
RunOnValues == {None} \cup {Some(v) : v \in Stages \cup {"queue"}}

\* an assignment that leaves an entry the table already holds
SetActionKeepSeeded(actions, exitCode, action) ==
    actions @@ (exitCode :> action)

\* c.actions[exitCode] = action (command.go:111)
SetAction(actions, exitCode, action) ==
    (exitCode :> action) @@ actions

RECURSIVE ProcessNodes(_, _)
\* the loop over the unknown nodes (command.go:96-115): [ok, actions]
ProcessNodes(actions, unknown) ==
    IF Len(unknown) = 0 THEN [ok |-> TRUE, actions |-> actions]
    ELSE LET node == Head(unknown)
         IN IF node.Name # "code" \/ Len(node.Args) < 2
            THEN [ok |-> FALSE, actions |-> actions]
            ELSE LET exitCode == Atoi(node.Args[1])
                     action == ParseActionDirective(Tail(node.Args))
                 IN IF exitCode = None \/ action = None
                    THEN [ok |-> FALSE, actions |-> actions]
                    ELSE ProcessNodes(SetAction(actions, exitCode[1], action[1]),
                                      Tail(unknown))

\* the code directives of a configuration Init accepts, by exit code: the
\* arguments after the code of the last directive for it (command.go:96-98)
CodeDirectives(unknown) ==
    LET code(i) == Atoi(unknown[i].Args[1])[1]
    IN [n \in {code(i) : i \in DOMAIN unknown} |->
           LET last == CHOOSE i \in DOMAIN unknown :
                          /\ code(i) = n
                          /\ \A j \in DOMAIN unknown : code(j) = n => j <= i
           IN Tail(unknown[last].Args)]

\* cfg.Enum("run_on", ..., StageBody, &c.stage) and cfg.Process (command.go:86-94)
RunOn(runOn) ==
    IF runOn = None THEN Some(StageBody)
    ELSE IF runOn[1] \in Stages THEN runOn ELSE None

CheckInit(lookPathOK, runOn, unknown) ==
    /\ check.phase = "new"
    /\ LET stage == RunOn(runOn)
           p == ProcessNodes(check.actions, unknown)
       IN IF ~lookPathOK
          THEN check' = [check EXCEPT !.phase = "failed"]
          ELSE IF stage = None
          THEN check' = [check EXCEPT !.phase = "failed"]
          ELSE check' = [check EXCEPT !.phase = IF p.ok THEN "ready" ELSE "failed",
                                      !.stage = stage[1],
                                      !.actions = p.actions,
                                      !.given = IF p.ok THEN CodeDirectives(unknown)
                                                ELSE <<>>]
    /\ UNCHANGED <<states, call, child, events, result>>

----------------------------------------------------------------------------
(* The state struct and CheckStateForMsg (command.go:120-135). *)

\* module.MsgMetadata values: no connection info; a TCP connection of an
\* authenticated user with a resolved reverse-DNS name; a non-TCP connection
\* with no user and no resolved name
MsgMetas ==
    { [ID |-> Str("msg-1"), Conn |-> None],
      [ID |-> Str("msg-2"),
       Conn |-> Some([AuthUser |-> Str("alice"),
                      RemoteAddr |-> [net |-> "tcp", IP |-> "192.0.2.1"],
                      Hostname |-> Str("client.test"),
                      RDNSName |-> Some(Str("mx.x.test"))])],
      [ID |-> Str("msg-3"),
       Conn |-> Some([AuthUser |-> <<>>,
                      RemoteAddr |-> [net |-> "unix", IP |-> ""],
                      Hostname |-> Str("localhost"),
                      RDNSName |-> None])] }

NoState ==
    [created |-> FALSE, msgMeta |-> [ID |-> <<>>, Conn |-> None],
     mailFrom |-> <<>>, rcpts |-> <<>>]

\* &state{c: c, msgMeta: msgMeta} (command.go:130-134)
NewState(msgMeta) ==
    [created |-> TRUE, msgMeta |-> msgMeta, mailFrom |-> <<>>, rcpts |-> <<>>]

----------------------------------------------------------------------------
(* expandCommand (command.go:137-185). *)

\* tcpAddr.IP.String()
IPString(ip) == Str(ip)

\* s.msgMeta.Conn.RDNSName.Get().(string), "" when the value is no string
RDNSValue(conn) ==
    IF conn.RDNSName = None THEN <<>> ELSE conn.RDNSName[1]

\* case "{source_rdns}" (command.go:162-170)
SourceRDNS(msgMeta) ==
    IF msgMeta.Conn = None THEN <<>>
    ELSE LET val == RDNSValue(msgMeta.Conn[1])
         IN IF val = <<>> THEN <<>> ELSE <<>>

\* case "{source_host}" (command.go:157-161)
SourceHost(msgMeta) ==
    IF msgMeta.Conn = None THEN <<>> ELSE msgMeta.Conn[1].Hostname

\* a join that leaves the last recorded recipient out
RcptsValueButLast(rcpts) ==
    Join(SubSeq(rcpts, 1, Len(rcpts) - 1), Str("\n"))

\* case "{rcpts}" (command.go:175-176)
RcptsValue(rcpts) == Join(rcpts, Str("\n"))

\* a replacement function whose {address} is the first recorded recipient
ReplaceAddressFirstRcpt(s, address, placeholder) ==
    CASE placeholder = "{rcpts}" -> RcptsValue(s.rcpts)
      [] placeholder = "{sender}" -> s.mailFrom
      [] placeholder = "{msg_id}" -> s.msgMeta.ID
      [] placeholder = "{address}" ->
           IF Len(s.rcpts) > 0 THEN s.rcpts[1] ELSE address
      [] OTHER -> Str(placeholder)

\* the replacement function (command.go:141-181)
Replace(s, address, placeholder) ==
    CASE placeholder = "{auth_user}" ->
           IF s.msgMeta.Conn = None THEN <<>> ELSE s.msgMeta.Conn[1].AuthUser
      [] placeholder = "{source_ip}" ->
           IF s.msgMeta.Conn = None THEN <<>>
           ELSE IF s.msgMeta.Conn[1].RemoteAddr.net # "tcp" THEN <<>>
           ELSE IPString(s.msgMeta.Conn[1].RemoteAddr.IP)
      [] placeholder = "{source_host}" -> SourceHost(s.msgMeta)
      [] placeholder = "{source_rdns}" -> SourceRDNS(s.msgMeta)
      [] placeholder = "{msg_id}" -> s.msgMeta.ID
      [] placeholder = "{sender}" -> s.mailFrom
      [] placeholder = "{rcpts}" -> RcptsValue(s.rcpts)
      [] placeholder = "{address}" -> address
      [] OTHER -> Str(placeholder)

\* a replacement of the first match only
ReplaceFirstOnly(arg, s, address) ==
    LET hits == {i \in DOMAIN arg : arg[i] \in placeholderRe}
    IN Join([i \in DOMAIN arg |->
               IF i \in hits /\ \A j \in hits : i <= j
               THEN Replace(s, address, arg[i])
               ELSE Str(arg[i])], <<>>)

RECURSIVE ReplaceAllStringFunc(_, _, _)
\* placeholderRe.ReplaceAllStringFunc(arg, func) (command.go:141)
ReplaceAllStringFunc(arg, s, address) ==
    IF Len(arg) = 0 THEN <<>>
    ELSE (IF Head(arg) \in placeholderRe
          THEN Replace(s, address, Head(arg))
          ELSE Str(Head(arg)))
         \o ReplaceAllStringFunc(Tail(arg), s, address)

\* an expansion written into the template's own slice (expArgs := s.c.cmdArgs)
cmdArgsExpandedInPlace(cmdArgs, expArgs) == expArgs

\* c.cmdArgs once expandCommand has returned expArgs: the expansion goes to
\* a slice of its own, make([]string, len(s.c.cmdArgs)) (command.go:138),
\* and the template is only read (command.go:139-141)
cmdArgsAfterExpand(cmdArgs, expArgs) == cmdArgs

expandCommand(c, s, address) ==
    [cmd |-> c.cmd,
     args |-> [i \in 1..Len(c.cmdArgs) |->
                 ReplaceAllStringFunc(c.cmdArgs[i], s, address)]]

----------------------------------------------------------------------------
(* module.CheckResult and exterrors.SMTPError. *)

\* module.CheckResult{}
EmptyResult ==
    [Reason |-> None, Reject |-> FALSE, Quarantine |-> FALSE, Header |-> <<>>]

\* cmd.String()
CmdString(cmdName, args) == Join(<<cmdName>> \o args, Str(" "))

\* the 450 "Internal server error" SMTPError (command.go:193-201, 208-216,
\* 226-234, 253-261, 340-348)
InternalError(err, cmdLine) ==
    [Code |-> 450, EnhancedCode |-> <<>>, Message |-> Str("Internal server error"),
     CheckName |-> "command", Err |-> err, Reason |-> "",
     Misc |-> [cmd |-> cmdLine, exit_code |-> None]]

InternalErrorResult(err, cmdLine) ==
    [EmptyResult EXCEPT !.Reason = Some(InternalError(err, cmdLine)), !.Reject = TRUE]

----------------------------------------------------------------------------
(* The ways a started child ends, and what cmd.Wait makes of them. *)

ExitCodes == 0..3

\* os.ProcessState of a child: exited with a code, or killed by a signal
ProcessStates ==
    [kind : {"exit"}, code : ExitCodes] \cup {[kind |-> "signal", code |-> 9]}

\* what cmd.Wait observes: a process state; or it fails with another error,
\* either after it has reaped the child (copying to or from the child
\* failed) or without reaping it (the wait itself failed)
WaitOutcomes ==
    ProcessStates \cup {[kind |-> "copyfail", code |-> 0], [kind |-> "waitfail", code |-> 0]}

\* the ways a child that wrote out may end: every one after no output, an
\* exit with 0 or 1 after header fields
WaitOutcomesAfter(out) ==
    IF out = <<>> THEN WaitOutcomes
    ELSE {o \in ProcessStates : o.kind = "exit" /\ o.code \in {0, 1}}

\* cmd.Wait has released the process: os.Process is done
Reaped(o) == o.kind # "waitfail"

\* ProcessState.ExitCode(): -1 when the process was terminated by a signal
ExitCode(ps) == IF ps.kind = "exit" THEN ps.code ELSE -1

\* the error of cmd.Wait(): nil, an *exec.ExitError or another error
WaitErr(o) ==
    IF o.kind \in {"copyfail", "waitfail"}
    THEN Some([ExitError |-> FALSE, ProcessState |-> o])
    ELSE IF o.kind = "exit" /\ o.code = 0 THEN None
    ELSE Some([ExitError |-> TRUE, ProcessState |-> o])

----------------------------------------------------------------------------
(* errorRes (command.go:250-295). *)

\* check.FailAction.Apply
Apply(action, res) ==
    IF ~action.Reject /\ ~action.Quarantine
    THEN [res EXCEPT !.Reason = None, !.Reject = FALSE, !.Quarantine = FALSE]
    ELSE [res EXCEPT
            !.Reason = IF action.ReasonOverride = None THEN @
                       ELSE Some([@[1] EXCEPT !.Message = action.ReasonOverride[1]]),
            !.Reject = action.Reject,
            !.Quarantine = action.Quarantine]

\* the 550 policy SMTPError (command.go:283-292)
PolicyError(cmdLine, exitCode) ==
    [Code |-> 550, EnhancedCode |-> <<5, 7, 1>>,
     Message |-> Str("Message rejected for due to a local policy"),
     CheckName |-> "command", Err |-> "", Reason |-> "",
     Misc |-> [cmd |-> cmdLine, exit_code |-> Some(exitCode)]]

\* the 450 SMTPError of an exit code with no action (command.go:268-278)
UnexpectedCodeError(cmdLine, exitCode) ==
    [Code |-> 450, EnhancedCode |-> <<>>, Message |-> Str("Internal server error"),
     CheckName |-> "command", Err |-> "exit", Reason |-> "unexpected exit code",
     Misc |-> [cmd |-> cmdLine, exit_code |-> Some(exitCode)]]

\* a lookup that drops the ok test: a missing entry reads as the zero FailAction
LookupActionNoOk(actions, exitCode) ==
    IF exitCode \in DOMAIN actions THEN Some(actions[exitCode])
    ELSE Some(FailAction(FALSE, FALSE, None))

\* s.c.actions[exitErr.ExitCode()] (command.go:266)
LookupAction(actions, exitCode) ==
    IF exitCode \in DOMAIN actions THEN Some(actions[exitCode]) ELSE None

\* errorRes that returns the 550 result without action.Apply(res)
errorResNoApply(c, err, res, cmdLine) ==
    IF ~err.ExitError
    THEN [res EXCEPT !.Reason = Some(InternalError("wait", cmdLine)), !.Reject = TRUE]
    ELSE LET exitCode == ExitCode(err.ProcessState)
         IN IF exitCode \notin DOMAIN c.actions
            THEN [res EXCEPT !.Reason = Some(UnexpectedCodeError(cmdLine, exitCode)),
                             !.Reject = TRUE]
            ELSE [res EXCEPT !.Reason = Some(PolicyError(cmdLine, exitCode))]

errorRes(c, err, res, cmdLine) ==
    IF ~err.ExitError
    THEN [res EXCEPT !.Reason = Some(InternalError("wait", cmdLine)), !.Reject = TRUE]
    ELSE LET exitCode == ExitCode(err.ProcessState)
             action == LookupAction(c.actions, exitCode)
         IN IF action = None
            THEN [res EXCEPT !.Reason = Some(UnexpectedCodeError(cmdLine, exitCode)),
                             !.Reject = TRUE]
            ELSE Apply(action[1],
                       [res EXCEPT !.Reason = Some(PolicyError(cmdLine, exitCode))])

----------------------------------------------------------------------------
(* textproto.ReadHeader on the child's standard output (command.go:222-223). *)

Field(k, v) == [kind |-> "field", k |-> k, v |-> v]
BlankLine == [kind |-> "blank", k |-> "", v |-> ""]
NoColonLine == [kind |-> "nocolon", k |-> "", v |-> ""]

\* what a child may write before it ends its output
Outputs ==
    { <<>>,
      <<Field("X-Checked", "yes"), Field("X-Score", "1"), BlankLine, NoColonLine>>,
      <<Field("X-Checked", "yes")>>,
      <<NoColonLine, BlankLine>> }

RECURSIVE ReadHeaderFrom(_, _)
ReadHeaderFrom(out, fs) ==
    IF Len(out) = 0 THEN [hdr |-> fs, err |-> "EOF"]
    ELSE IF Head(out).kind = "blank" THEN [hdr |-> fs, err |-> ""]
    ELSE IF Head(out).kind = "nocolon" THEN [hdr |-> fs, err |-> "malformed"]
    ELSE ReadHeaderFrom(Tail(out), Append(fs, [k |-> Head(out).k, v |-> Head(out).v]))

ReadHeader(out) == ReadHeaderFrom(out, <<>>)

----------------------------------------------------------------------------
(* The host: which event it may deliver next to transaction t.  Events of   *)
(* one transaction arrive one after the other: at most one connection       *)
(* event, then at most one sender event, then one event per recipient,      *)
(* then at most one body event; Close may come at any point between them. *)

Rank(kind) ==
    CASE kind = "conn" -> 1
      [] kind = "sender" -> 2
      [] kind = "rcpt" -> 3
      [] kind = "body" -> 4
      [] kind = "close" -> 5

LastRank(t) ==
    IF Len(events[t]) = 0 THEN 0 ELSE Rank(events[t][Len(events[t])].kind)

RcptEvents(evs) == SelectSeq(evs, LAMBDA e : e.kind = "rcpt")

\* a host protocol under a lock of the Check: no handler of any transaction
\* is entered while a run of another one is in progress
HostMayGlobalLock(t, kind) ==
    /\ check.phase = "ready"
    /\ states[t].created
    /\ \A u \in DOMAIN call : call[u].pc = "idle"
    /\ \/ Rank(kind) > LastRank(t)
       \/ kind = "rcpt" /\ LastRank(t) = Rank("rcpt")
    /\ kind = "rcpt" => Len(RcptEvents(events[t])) < MaxRcpts

HostMay(t, kind) ==
    /\ check.phase = "ready"
    /\ states[t].created
    /\ call[t].pc = "idle"
    /\ \/ Rank(kind) > LastRank(t)
       \/ kind = "rcpt" /\ LastRank(t) = Rank("rcpt")
    /\ kind = "rcpt" => Len(RcptEvents(events[t])) < MaxRcpts

\* open is how body.Open ended in the handling of the event: "" when the
\* handler did not call it
Event(kind, addr) == [kind |-> kind, addr |-> addr, open |-> ""]

BodyEvent(open) == [kind |-> "body", addr |-> <<>>, open |-> open]

----------------------------------------------------------------------------
(* run (command.go:187-248), in the three steps at which it can block:      *)
(* pipe and start, the header read, the wait. *)

\* steps are the steps the run in progress has taken so far, out what its
\* child wrote; both are kept for the properties below, run has no such
\* variables
IdleCall ==
    [pc |-> "idle", cmdName |-> <<>>, args |-> <<>>, stdin |-> <<>>,
     hdr |-> <<>>, ev |-> 0, out |-> <<>>, steps |-> <<>>]

NoChild == [started |-> 0]

NoResult ==
    [ev |-> 0, res |-> EmptyResult, status |-> None,
     started |-> FALSE, waited |-> FALSE, signalled |-> FALSE,
     out |-> <<>>, steps |-> <<>>]

\* what a handler that did not get to cmd.Start has done of run
NoRun == [steps |-> <<>>, out |-> <<>>, reaped |-> FALSE]

Did(steps, step) == \E i \in DOMAIN steps : steps[i] = step

\* a deferred Signal that is delivered whether the child was reaped or not
InterruptedAlways(started, reaped) == started

\* defer cmd.Process.Signal(os.Interrupt) (command.go:220) is registered
\* once cmd.Start has succeeded and runs at every return of run after that;
\* os.Process.Signal sends nothing to a process cmd.Wait has reaped
Interrupted(started, reaped) == started /\ ~reaped

\* a handler returns res for event number n; ran is what run did on the way
Return(t, n, res, status, ran) ==
    result' = [result EXCEPT ![t] =
                 [ev |-> n, res |-> res, status |-> status,
                  started |-> Did(ran.steps, "start"),
                  waited |-> Did(ran.steps, "wait"),
                  signalled |-> Interrupted(Did(ran.steps, "start"), ran.reaped),
                  out |-> ran.out, steps |-> ran.steps]]

\* exec.Command, cmd.StdoutPipe, cmd.Start (command.go:188-220)
runStart(t, n, cmdName, args, stdin) ==
    \E outcome \in {"pipe", "start", "ok"} :
        IF outcome = "ok"
        THEN /\ call' = [call EXCEPT ![t] =
                           [pc |-> "reading", cmdName |-> cmdName, args |-> args,
                            stdin |-> stdin, hdr |-> <<>>, ev |-> n,
                            out |-> <<>>, steps |-> <<"start">>]]
             /\ child' = [child EXCEPT ![t].started = @ + 1]
             /\ UNCHANGED result
        ELSE /\ call' = [call EXCEPT ![t] =
                           [pc |-> "idle", cmdName |-> cmdName, args |-> args,
                            stdin |-> stdin, hdr |-> <<>>, ev |-> n,
                            out |-> <<>>, steps |-> <<>>]]
             /\ Return(t, n, InternalErrorResult(outcome, CmdString(cmdName, args)),
                       None, NoRun)
             /\ UNCHANGED child

\* textproto.ReadHeader and the return on a malformed header, with the
\* deferred cmd.Process.Signal(os.Interrupt) (command.go:220-240)
runReadHeader(t, out) ==
    /\ call[t].pc = "reading"
    /\ LET r == ReadHeader(out)
       IN IF r.err \notin {"", "EOF"}
          THEN /\ call' = [call EXCEPT ![t].pc = "idle", ![t].steps = <<>>]
               /\ Return(t, call[t].ev,
                         InternalErrorResult("header",
                                             CmdString(call[t].cmdName, call[t].args)),
                         None,
                         [steps |-> Append(call[t].steps, "read"), out |-> out,
                          reaped |-> FALSE])
          ELSE /\ call' = [call EXCEPT ![t].pc = "waiting", ![t].hdr = r.hdr,
                                        ![t].out = out, ![t].steps = Append(@, "read")]
               /\ UNCHANGED result
    /\ UNCHANGED <<check, states, child, events>>

\* a run that classifies every exit code, 0 included, by the table
runResultZeroByTable(c, hdr, err, cmdLine) ==
    LET res == [EmptyResult EXCEPT !.Header = hdr]
    IN IF err # None THEN errorRes(c, err[1], res, cmdLine)
       ELSE errorRes(c, [ExitError |-> TRUE,
                         ProcessState |-> [kind |-> "exit", code |-> 0]],
                     res, cmdLine)

\* a run that does not put the header it read into the result
runResultNoHeader(c, hdr, err, cmdLine) ==
    IF err # None THEN errorRes(c, err[1], EmptyResult, cmdLine) ELSE EmptyResult

\* the result of run once cmd.Wait has returned err (command.go:239-247)
runResult(c, hdr, err, cmdLine) ==
    LET res == [EmptyResult EXCEPT !.Header = hdr]
    IN IF err # None THEN errorRes(c, err[1], res, cmdLine) ELSE res

\* cmd.Wait, then the classification of its error (command.go:242-247)
runWait(t, o) ==
    /\ call[t].pc = "waiting"
    /\ call' = [call EXCEPT ![t].pc = "idle", ![t].hdr = <<>>, ![t].out = <<>>,
                             ![t].steps = <<>>]
    /\ Return(t, call[t].ev,
              runResult(check, call[t].hdr, WaitErr(o),
                        CmdString(call[t].cmdName, call[t].args)),
              Some(o),
              [steps |-> call[t].steps \o <<"wait", "classify">>, out |-> call[t].out,
               reaped |-> Reaped(o)])
    /\ UNCHANGED <<check, states, child, events>>

----------------------------------------------------------------------------
(* The handlers (command.go:129-135, 297-358). *)

\* a sender handler that forgets the stage test
NotConfiguredSenderAlways(c, stage) == c.stage # stage /\ stage # StageSender

\* a connection handler that tests for the wrong stage
NotConfiguredConnAsBody(c, stage) ==
    IF stage = StageConnection THEN c.stage \notin {StageConnection, StageBody}
    ELSE c.stage # stage

\* s.c.stage != Stage... (command.go:298, 309, 320, 329)
NotConfigured(c, stage) == c.stage # stage

\* the Check after a handler has called expandCommand, which returned e
Expanded(c, e) == [c EXCEPT !.cmdArgs = cmdArgsAfterExpand(@, e.args)]

CheckStateForMsg(t, msgMeta) ==
    /\ check.phase = "ready"
    /\ ~states[t].created
    /\ states' = [states EXCEPT ![t] = NewState(msgMeta)]
    /\ UNCHANGED <<check, call, child, events, result>>

CheckConnection(t) ==
    /\ HostMay(t, "conn")
    /\ events' = [events EXCEPT ![t] = Append(@, Event("conn", <<>>))]
    /\ LET n == Len(events[t]) + 1
       IN IF NotConfigured(check, StageConnection)
          THEN Return(t, n, EmptyResult, None, NoRun) /\ UNCHANGED <<call, child>>
          ELSE LET e == expandCommand(check, states[t], <<>>)
               IN runStart(t, n, e.cmd, e.args, <<>>)
    /\ check' = IF NotConfigured(check, StageConnection) THEN check
                ELSE Expanded(check, expandCommand(check, states[t], <<>>))
    /\ UNCHANGED states

\* s.mailFrom = addr (command.go:307)
SetMailFrom(s, addr) == [s EXCEPT !.mailFrom = addr]

CheckSender(t, addr) ==
    /\ HostMay(t, "sender")
    /\ events' = [events EXCEPT ![t] = Append(@, Event("sender", addr))]
    /\ LET n == Len(events[t]) + 1
           s == SetMailFrom(states[t], addr)
       IN /\ states' = [states EXCEPT ![t] = s]
          /\ IF NotConfigured(check, StageSender)
             THEN Return(t, n, EmptyResult, None, NoRun) /\ UNCHANGED <<call, child>>
             ELSE LET e == expandCommand(check, s, addr)
                  IN runStart(t, n, e.cmd, e.args, <<>>)
          /\ check' = IF NotConfigured(check, StageSender) THEN check
                      ELSE Expanded(check, expandCommand(check, s, addr))

\* a handler that overwrites the recipients instead of appending
AppendRcptOverwrite(s, addr) == [s EXCEPT !.rcpts = <<addr>>]

\* s.rcpts = append(s.rcpts, addr) (command.go:318)
AppendRcpt(s, addr) == [s EXCEPT !.rcpts = Append(@, addr)]

CheckRcpt(t, addr) ==
    /\ HostMay(t, "rcpt")
    /\ events' = [events EXCEPT ![t] = Append(@, Event("rcpt", addr))]
    /\ LET n == Len(events[t]) + 1
           s == AppendRcpt(states[t], addr)
       IN /\ states' = [states EXCEPT ![t] = s]
          /\ IF NotConfigured(check, StageRcpt)
             THEN Return(t, n, EmptyResult, None, NoRun) /\ UNCHANGED <<call, child>>
             ELSE LET e == expandCommand(check, s, addr)
                  IN runStart(t, n, e.cmd, e.args, <<>>)
          /\ check' = IF NotConfigured(check, StageRcpt) THEN check
                      ELSE Expanded(check, expandCommand(check, s, addr))

\* a handler that ignores the error of body.Open
OpenFailedIgnored(openOK) == FALSE

\* bR, err := body.Open(); err != nil (command.go:337-338)
OpenFailed(openOK) == ~openOK

CheckBody(t, openOK) ==
    /\ HostMay(t, "body")
    /\ events' = [events EXCEPT ![t] =
                    Append(@, IF NotConfigured(check, StageBody) THEN Event("body", <<>>)
                              ELSE BodyEvent(IF openOK THEN "ok" ELSE "failed"))]
    /\ LET n == Len(events[t]) + 1
       IN IF NotConfigured(check, StageBody)
          THEN Return(t, n, EmptyResult, None, NoRun) /\ UNCHANGED <<call, child>>
          ELSE LET e == expandCommand(check, states[t], <<>>)
               IN IF OpenFailed(openOK)
                  THEN /\ Return(t, n,
                                 InternalErrorResult("open",
                                     e.cmd \o Str(" ") \o Join(e.args, Str(" "))),
                                 None, NoRun)
                       /\ UNCHANGED <<call, child>>
                  ELSE runStart(t, n, e.cmd, e.args, <<"header", "body">>)
    /\ check' = IF NotConfigured(check, StageBody) THEN check
                ELSE Expanded(check, expandCommand(check, states[t], <<>>))
    /\ UNCHANGED states

\* Close returns nil (command.go:356-358)
Close(t) ==
    /\ HostMay(t, "close")
    /\ UNCHANGED vars

----------------------------------------------------------------------------
(* The specification. *)

Init ==
    /\ check \in {New(a) : a \in InlineArgs}
    /\ states = [t \in Txns |-> NoState]
    /\ call = [t \in Txns |-> IdleCall]
    /\ child = [t \in Txns |-> NoChild]
    /\ events = [t \in Txns |-> <<>>]
    /\ result = [t \in Txns |-> NoResult]

Next ==
    \/ \E ok \in BOOLEAN, runOn \in RunOnValues, unknown \in NodeSeqs(MaxNodes) :
           CheckInit(ok, runOn, unknown)
    \/ \E t \in Txns, m \in MsgMetas : CheckStateForMsg(t, m)
    \/ \E t \in Txns : CheckConnection(t)
    \/ \E t \in Txns, a \in Senders : CheckSender(t, Str(a))
    \/ \E t \in Txns, a \in Addrs : CheckRcpt(t, Str(a))
    \/ \E t \in Txns, openOK \in BOOLEAN : CheckBody(t, openOK)
    \/ \E t \in Txns, out \in Outputs : runReadHeader(t, out)
    \/ \E t \in Txns : \E o \in WaitOutcomesAfter(call[t].out) : runWait(t, o)
    \/ \E t \in Txns : Close(t)

Spec == Init /\ [][Next]_vars

----------------------------------------------------------------------------
(* Two transactions in flight on one Check (command.go:129-135): every     *)
(* CheckStateForMsg makes a state of its own, and the handlers and run      *)
(* steps of the two interleave freely.  Each transaction has its own        *)
(* recipient address and message; the configuration gives run_on only, and a child      *)
(* writes nothing and exits with 0 or 1, or never gets that far. *)

ConcTxns == {1, 2}

ConcAddr(t) == IF t = 1 THEN "a@x.test" ELSE "b@x.test"

\* the first transaction's message comes over the TCP connection, the
\* second one's over the other
ConcMetas(t) ==
    {m \in MsgMetas : m.ID = Str(IF t = 1 THEN "msg-2" ELSE "msg-3")}

ConcOutputs == {<<>>}

ConcWaitOutcomes == {o \in ProcessStates : o.kind = "exit" /\ o.code \in {0, 1}}

InitConc ==
    /\ check \in {New(a) : a \in InlineArgs}
    /\ states = [t \in ConcTxns |-> NoState]
    /\ call = [t \in ConcTxns |-> IdleCall]
    /\ child = [t \in ConcTxns |-> NoChild]
    /\ events = [t \in ConcTxns |-> <<>>]
    /\ result = [t \in ConcTxns |-> NoResult]

NextConc ==
    \/ \E runOn \in RunOnValues : CheckInit(TRUE, runOn, <<>>)
    \/ \E t \in ConcTxns : \E m \in ConcMetas(t) : CheckStateForMsg(t, m)
    \/ \E t \in ConcTxns : CheckConnection(t)
    \/ \E t \in ConcTxns, a \in Senders : CheckSender(t, Str(a))
    \/ \E t \in ConcTxns : CheckRcpt(t, Str(ConcAddr(t)))
    \/ \E t \in ConcTxns : CheckBody(t, TRUE)
    \/ \E t \in ConcTxns, out \in ConcOutputs : runReadHeader(t, out)
    \/ \E t \in ConcTxns, o \in ConcWaitOutcomes : runWait(t, o)
    \/ \E t \in ConcTxns : Close(t)

SpecConc == InitConc /\ [][NextConc]_vars

----------------------------------------------------------------------------
(* Properties. *)

\* the event the last returned handler of t handled
Returned(t) == result[t].ev > 0
ReturnedEvent(t) == events[t][result[t].ev]

\* the event that made the last call of run in t
Invoked(t) == call[t].ev > 0
InvokedEvent(t) == events[t][call[t].ev]

Exited(t, code) == result[t].status = Some([kind |-> "exit", code |-> code])

TriggerEvents(t) == SelectSeq(events[t], LAMBDA e : e.kind = check.stage)

\* C1: an event whose stage is not the configured stage returns the empty
\* CheckResult (no Reason, Reject false, Quarantine false, no header) and
\* starts no external process: run is not entered for it.
C1_NonTriggerIsEmpty ==
    \A t \in Txns :
        /\ (Returned(t) /\ ReturnedEvent(t).kind # check.stage) =>
              /\ result[t].res.Reason = None
              /\ ~result[t].res.Reject
              /\ ~result[t].res.Quarantine
              /\ result[t].res.Header = <<>>
              /\ ~result[t].started
              /\ call[t].ev # result[t].ev
        /\ call[t].pc # "idle" => InvokedEvent(t).kind = check.stage

\* a non-trigger event has returned after the trigger event started a child
C1_Witness ==
    \E t \in Txns :
        /\ Returned(t)
        /\ ReturnedEvent(t).kind # check.stage
        /\ child[t].started > 0

\* C2 as stated: the external program is started at most once in a
\* transaction.
C2_StartedAtMostOnce ==
    \A t \in Txns : child[t].started <= 1

\* C2 as amended: the external program is started at most once per event of
\* the configured stage and only by such an event, so at most once in a
\* transaction when the stage is conn, sender or body and at most once per
\* recipient event when the stage is rcpt.
C2_StartedOncePerTriggerEvent ==
    \A t \in Txns :
        /\ child[t].started <= Len(TriggerEvents(t))
        /\ Invoked(t) => InvokedEvent(t).kind = check.stage
        /\ check.stage # StageRcpt => child[t].started <= 1

\* two recipient events have each started a child
C2_Witness ==
    \E t \in Txns :
        /\ check.stage = StageRcpt
        /\ child[t].started = 2
        /\ Len(TriggerEvents(t)) = 2

\* C3: a child that exits with status 0 yields a pass-through CheckResult
\* (no Reason, Reject false, Quarantine false) whatever the table holds, an
\* entry for code 0 included.
C3_ExitZeroPassesThrough ==
    \A t \in Txns :
        Exited(t, 0) =>
            /\ result[t].res.Reason = None
            /\ ~result[t].res.Reject
            /\ ~result[t].res.Quarantine

\* a child exited 0 under a table that maps code 0
C3_Witness ==
    \E t \in Txns :
        /\ Exited(t, 0)
        /\ 0 \in DOMAIN check.actions

\* the Reason of the last returned CheckResult of t
HasReason(t) == result[t].res.Reason # None
Reason(t) == result[t].res.Reason[1]

\* the command line of the last call of run in t; it is the call that
\* returned the last result while result[t].ev = call[t].ev
InvokedCmdLine(t) == CmdString(check.cmd, call[t].args)

\* C4: with the default table {1 -> reject, 2 -> quarantine} a child exiting
\* with code 1 yields the permanent 550 / 5.7.1 policy error with Reject
\* set, and a child exiting with code 2 yields Quarantine set and Reject not
\* set, with the 550 policy error as its Reason.
C4_DefaultTable ==
    \A t \in Txns :
        check.actions = DefaultActions =>
            /\ Exited(t, 1) =>
                  /\ HasReason(t)
                  /\ Reason(t).Code = 550
                  /\ Reason(t).EnhancedCode = <<5, 7, 1>>
                  /\ result[t].res.Reject
                  /\ ~result[t].res.Quarantine
            /\ Exited(t, 2) =>
                  /\ HasReason(t)
                  /\ Reason(t).Code = 550
                  /\ Reason(t).EnhancedCode = <<5, 7, 1>>
                  /\ result[t].res.Quarantine
                  /\ ~result[t].res.Reject

\* a child exited 2 under the default table
C4_Witness ==
    \E t \in Txns :
        /\ check.actions = DefaultActions
        /\ Exited(t, 2)
        /\ result[t].res.Quarantine

\* C5: a nonzero exit code with no entry in the table yields a temporary
\* rejection: code 450, Reject set, Quarantine not set, tagged "unexpected
\* exit code", carrying the command line and the exit code.
C5_UnmappedCodeIsTemporary ==
    \A t \in Txns : \A code \in ExitCodes \ {0} :
        (Exited(t, code) /\ code \notin DOMAIN check.actions) =>
            /\ HasReason(t)
            /\ Reason(t).Code = 450
            /\ Reason(t).Reason = "unexpected exit code"
            /\ result[t].ev = call[t].ev => Reason(t).Misc.cmd = InvokedCmdLine(t)
            /\ Reason(t).Misc.exit_code = Some(code)
            /\ result[t].res.Reject
            /\ ~result[t].res.Quarantine

\* a child exited 3 and the table holds nothing for 3
C5_Witness ==
    \E t \in Txns :
        /\ Exited(t, 3)
        /\ 3 \notin DOMAIN check.actions
        /\ result[t].ev = call[t].ev
        /\ result[t].res.Reject

Signalled(t) == result[t].status # None /\ result[t].status[1].kind = "signal"

\* C6: a child terminated by a signal yields the temporary 450 error with
\* Reject set, whatever keys the table holds.
C6_SignalIsInfrastructureFailure ==
    \A t \in Txns :
        Signalled(t) =>
            /\ HasReason(t)
            /\ Reason(t).Code = 450
            /\ result[t].res.Reject
            /\ ~result[t].res.Quarantine

\* the addresses of the recipient events among evs, in order
RcptAddrs(evs) ==
    [i \in 1..Len(RcptEvents(evs)) |-> RcptEvents(evs)[i].addr]

\* the expansions, in the last call of run, of the arguments whose template is tmpl
Expansions(t, tmpl) ==
    {call[t].args[i] : i \in {j \in DOMAIN check.cmdArgs : check.cmdArgs[j] = tmpl}}

\* C7 as stated: {rcpts} expands to the newline-joined recipients recorded
\* strictly before the event that triggers the check.
C7_RcptsStrictlyBefore ==
    \A t \in Txns :
        Invoked(t) =>
            Expansions(t, <<"{rcpts}">>) =
                {Join(RcptAddrs(SubSeq(events[t], 1, call[t].ev - 1)), Str("\n"))}

\* C7 as amended: {rcpts} expands to the newline-joined recipients recorded up
\* to and including the event that triggers the check, so in the check of a
\* recipient event the address of that event is the last element.
C7_RcptsUpToCurrent ==
    \A t \in Txns :
        Invoked(t) =>
            Expansions(t, <<"{rcpts}">>) =
                {Join(RcptAddrs(SubSeq(events[t], 1, call[t].ev)), Str("\n"))}

\* the check of a second recipient event has expanded {rcpts}
C7_Witness ==
    \E t \in Txns :
        /\ Invoked(t)
        /\ InvokedEvent(t).kind = "rcpt"
        /\ Len(RcptAddrs(SubSeq(events[t], 1, call[t].ev))) = 2
        /\ Expansions(t, <<"{rcpts}">>) # {}

\* C8: with stage rcpt the k-th invocation expands {address} to the k-th
\* recipient and is computed from the recipients r1..rk in arrival order.
C8_KthInvocation ==
    \A t \in Txns :
        (check.stage = StageRcpt /\ Invoked(t)) =>
            LET upTo == RcptAddrs(SubSeq(events[t], 1, call[t].ev))
                k == Len(upTo)
            IN /\ k >= 1
               /\ Expansions(t, <<"-a">>) = {Str("-a")}
               /\ Expansions(t, <<"{address}">>) = {upTo[k]}
               /\ Expansions(t, <<"{rcpts}">>) = {Join(upTo, Str("\n"))}
               /\ states[t].rcpts = RcptAddrs(events[t])
               /\ \A j \in 1..k : upTo[j] = RcptAddrs(events[t])[j]

\* the second invocation, for a recipient other than the first
C8_Witness ==
    \E t \in Txns :
        /\ check.stage = StageRcpt
        /\ Invoked(t)
        /\ child[t].started = 2
        /\ Len(RcptAddrs(events[t])) = 2
        /\ call[t].ev = Len(events[t])
        /\ RcptAddrs(events[t])[1] # RcptAddrs(events[t])[2]

\* C9: {source_rdns} expands to the resolved reverse-DNS name when the
\* connection info is present and a name was resolved and to "" otherwise;
\* {source_host} expands to the connection's hostname, or "" without
\* connection info.
C9_SourceRDNSAndHost ==
    \A t \in Txns :
        Invoked(t) =>
            LET conn == states[t].msgMeta.Conn
            IN /\ Expansions(t, <<"{source_rdns}">>) =
                    {IF conn # None /\ conn[1].RDNSName # None
                     THEN conn[1].RDNSName[1] ELSE <<>>}
               /\ Expansions(t, <<"{source_host}">>) =
                    {IF conn # None THEN conn[1].Hostname ELSE <<>>}

SenderEvents(evs) == SelectSeq(evs, LAMBDA e : e.kind = "sender")

\* C10: the recorded sender is the address of the latest sender event and
\* the recorded recipients are the addresses of the recipient events so
\* far, in arrival order; a recipient event adds one element at the end and
\* no other event changes the recipients.
C10_RecordedSenderAndRcpts ==
    \A t \in Txns :
        /\ states[t].mailFrom =
              IF Len(SenderEvents(events[t])) = 0 THEN <<>>
              ELSE SenderEvents(events[t])[Len(SenderEvents(events[t]))].addr
        /\ states[t].rcpts = RcptAddrs(events[t])

\* sender, two recipients and body have been delivered at a stage other than rcpt
C10_Witness ==
    \E t \in Txns :
        /\ check.stage # StageRcpt
        /\ Len(SenderEvents(events[t])) = 1
        /\ Len(states[t].rcpts) = 2
        /\ states[t].rcpts[1] # states[t].rcpts[2]
        /\ events[t][Len(events[t])].kind = "body"
        /\ result[t].ev = Len(events[t])

\* C11: with stage body, when body.Open fails CheckBody returns the
\* temporary 450 error with Reject set, carrying the command line (the
\* command name and the expanded arguments, joined by spaces), and starts no
\* external process for that event.
C11_BodyOpenFailure ==
    \A t \in Txns :
        (Returned(t) /\ ReturnedEvent(t).open = "failed") =>
            /\ check.stage = StageBody
            /\ HasReason(t)
            /\ Reason(t).Code = 450
            /\ Reason(t).Misc.cmd =
                  check.cmd \o Str(" ")
                    \o Join(expandCommand(check, states[t], <<>>).args, Str(" "))
            /\ result[t].res.Reject
            /\ ~result[t].res.Quarantine
            /\ ~result[t].started
            /\ call[t].ev # result[t].ev
            /\ call[t].pc = "idle"
            /\ child[t].started = 0

\* body.Open has failed in a transaction with a sender and a recipient
C11_Witness ==
    \E t \in Txns :
        /\ Returned(t)
        /\ ReturnedEvent(t).open = "failed"
        /\ states[t].mailFrom # <<>>
        /\ Len(states[t].rcpts) > 0

\* the action the table holds for exit code n is pass-through
PassThrough(n) == ~check.actions[n].Reject /\ ~check.actions[n].Quarantine

\* C12: when the child exits with a nonzero code that the action table
\* holds, the 550 / 5.7.1 policy error is transformed by the entry's action:
\* pass-through gives a success Decision (no rejection, no quarantine, no
\* error reason), reject gives Reject with the permanent error, quarantine
\* gives Quarantine without Reject and still carries the policy cause.
C12_MappedCodeFollowsAction ==
    \A t \in Txns : \A n \in (ExitCodes \ {0}) \cap DOMAIN check.actions :
        Exited(t, n) =>
            /\ PassThrough(n) =>
                  /\ ~HasReason(t)
                  /\ ~result[t].res.Reject
                  /\ ~result[t].res.Quarantine
            /\ check.actions[n].Reject =>
                  /\ result[t].res.Reject
                  /\ HasReason(t)
                  /\ Reason(t).Code = 550
                  /\ Reason(t).EnhancedCode = <<5, 7, 1>>
            /\ check.actions[n].Quarantine =>
                  /\ result[t].res.Quarantine
                  /\ ~result[t].res.Reject
                  /\ HasReason(t)
                  /\ Reason(t).Code = 550
                  /\ Reason(t).EnhancedCode = <<5, 7, 1>>
                  /\ Reason(t).Misc.exit_code = Some(n)

\* a child has exited with a code whose entry is pass-through
C12_Witness ==
    \E t \in Txns : \E n \in (ExitCodes \ {0}) \cap DOMAIN check.actions :
        Exited(t, n) /\ PassThrough(n) /\ ~HasReason(t)

\* the table holds the seeded entries, extended and replaced by the
\* configured ones
TableAsConfigured ==
    /\ DOMAIN check.actions = DOMAIN DefaultActions \cup DOMAIN check.given
    /\ \A n \in DOMAIN check.given :
          check.actions[n] = ParseActionDirective(check.given[n])[1]
    /\ \A n \in DOMAIN DefaultActions \ DOMAIN check.given :
          check.actions[n] = DefaultActions[n]

\* the Decision of a child that exited with n is the one `code n <args>` asks for
FollowsDirective(t, args) ==
    /\ args[1] = "pass-through" =>
          ~HasReason(t) /\ ~result[t].res.Reject /\ ~result[t].res.Quarantine
    /\ args[1] = "reject" =>
          HasReason(t) /\ result[t].res.Reject /\ ~result[t].res.Quarantine
    /\ args[1] = "quarantine" =>
          HasReason(t) /\ result[t].res.Quarantine /\ ~result[t].res.Reject
    /\ (args[1] # "pass-through" /\ Len(args) > 1) =>
          /\ Reason(t).Message = Str(args[2])
          /\ Reason(t).Message # PolicyError(<<>>, 0).Message

\* C13 as stated: a configured `code <n> <action>` entry extends or replaces
\* the seeded entry for n, and when the child exits with n the Decision
\* follows the configured action and carries its custom message, for every
\* n a configuration may name.
C13_ConfiguredCodeFollowsAction ==
    check.phase = "ready" =>
        /\ TableAsConfigured
        /\ \A t \in Txns : \A n \in DOMAIN check.given :
              Exited(t, n) => FollowsDirective(t, check.given[n])

\* C13, amended: the same for every configured n other than 0; an entry for
\* code 0 is stored in the table but a child that exits with 0 passes through.
C13_ConfiguredNonzeroCodeFollowsAction ==
    check.phase = "ready" =>
        /\ TableAsConfigured
        /\ \A t \in Txns : \A n \in DOMAIN check.given \ {0} :
              Exited(t, n) => FollowsDirective(t, check.given[n])

\* code 3 is mapped to quarantine with the message "spam suspected" and a
\* child has exited with 3
C13_Witness ==
    \E t \in Txns :
        /\ 3 \in DOMAIN check.given
        /\ check.given[3] = <<"quarantine", "spam suspected">>
        /\ Exited(t, 3)
        /\ result[t].res.Quarantine
        /\ Reason(t).Message = Str("spam suspected")

\* the child of the run in progress in t has not ended its output or has
\* not exited
Hung(t) == call[t].pc \in {"reading", "waiting"}

\* whatever the host may deliver next to u, or the next step of u's own
\* run, can be taken
CanProceed(u) ==
    /\ ~states[u].created => ENABLED (\E m \in ConcMetas(u) : CheckStateForMsg(u, m))
    /\ (states[u].created /\ call[u].pc = "idle") =>
          /\ LastRank(u) < Rank("conn") => ENABLED CheckConnection(u)
          /\ LastRank(u) < Rank("sender") =>
                ENABLED (\E a \in Senders : CheckSender(u, Str(a)))
          /\ (LastRank(u) <= Rank("rcpt") /\ Len(RcptEvents(events[u])) < MaxRcpts) =>
                ENABLED CheckRcpt(u, Str(ConcAddr(u)))
          /\ LastRank(u) < Rank("body") => ENABLED CheckBody(u, TRUE)
          /\ LastRank(u) < Rank("close") => ENABLED Close(u)
    /\ call[u].pc = "reading" => ENABLED (\E out \in ConcOutputs : runReadHeader(u, out))
    /\ call[u].pc = "waiting" => ENABLED (\E o \in ConcWaitOutcomes : runWait(u, o))

\* a step of the handling of u: one of its handlers, or a step of its run
StepOf(u) ==
    \/ states'[u] # states[u]
    \/ events'[u] # events[u]
    \/ call'[u] # call[u]
    \/ result'[u] # result[u]

\* C14: with two transactions on one Check, a hung child blocks only the
\* call of the transaction that started it: while it hangs, every event the
\* host may deliver to the other transaction, and every step of the other
\* transaction's own run, can be taken; and a step of one transaction never
\* changes the sender or the recipients recorded for the other.
C14_HungChildBlocksOnlyItsOwn ==
    /\ [](\A t \in ConcTxns : \A u \in ConcTxns \ {t} :
            (check.phase = "ready" /\ Hung(t)) =>
                /\ CanProceed(u)
                /\ ~ENABLED CheckBody(t, TRUE)
                /\ ~ENABLED Close(t))
    /\ [][\A t \in ConcTxns : \A u \in ConcTxns \ {t} :
              StepOf(u) => /\ states'[t].mailFrom = states[t].mailFrom
                           /\ states'[t].rcpts = states[t].rcpts]_vars

\* the child of one transaction hangs while the other transaction, with a
\* recipient of its own, has had its connection, sender, recipient and body
\* events handled and its own child waited for
C14_Witness ==
    \E t \in ConcTxns : \E u \in ConcTxns \ {t} :
        /\ Hung(t)
        /\ Len(states[t].rcpts) > 0
        /\ Len(states[u].rcpts) > 0
        /\ states[u].rcpts # states[t].rcpts
        /\ LastRank(u) = Rank("body")
        /\ {events[u][i].kind : i \in DOMAIN events[u]} = {"conn", "sender", "rcpt", "body"}
        /\ call[u].pc = "idle"
        /\ result[u].ev = Len(events[u])
        /\ result[u].waited

\* C15: once Init has returned, no handler of any transaction and no step
\* of run or of the classification changes the trigger stage, the command
\* name, the argument template or the action table of the Check, however
\* the events of the transactions interleave.
C15_CheckIsNotWritten ==
    [][check.phase # "new" =>
          /\ check'.stage = check.stage
          /\ check'.cmd = check.cmd
          /\ check'.cmdArgs = check.cmdArgs
          /\ check'.actions = check.actions]_vars

\* both transactions have had a recipient expanded into the arguments of a
\* child that was started, read and waited for
C15_Witness ==
    /\ check.phase = "ready"
    /\ check.stage = StageRcpt
    /\ \A t \in ConcTxns :
          /\ result[t].waited
          /\ Len(states[t].rcpts) > 0
          /\ call[t].args # check.cmdArgs

\* the header fields of an output: its lines up to the first blank line, or
\* all of them when there is none
FieldsBeforeBlank(out) ==
    LET blanks == {i \in DOMAIN out : out[i].kind = "blank"}
        n == IF blanks = {} THEN Len(out) + 1
             ELSE CHOOSE i \in blanks : \A j \in blanks : i <= j
    IN [i \in 1..(n - 1) |-> [k |-> out[i].k, v |-> out[i].v]]

\* C16: when the child exits with status 0 the CheckResult carries exactly
\* the header fields the child wrote before the blank line, in order, and
\* nothing of what follows the blank line, and it rejects nothing; that
\* holds too when the child wrote nothing or its output ended before a blank
\* line, which is not taken for an error.
C16_ExitZeroCarriesHeader ==
    \A t \in Txns :
        /\ Exited(t, 0) =>
              /\ result[t].res.Header = FieldsBeforeBlank(result[t].out)
              /\ ~HasReason(t)
              /\ ~result[t].res.Reject
              /\ ~result[t].res.Quarantine
        /\ (result[t].started /\ \A i \in DOMAIN result[t].out :
                                    result[t].out[i].kind = "field") =>
              /\ result[t].waited
              /\ HasReason(t) => Reason(t).Err # "header"

\* a child wrote two header fields, the blank line and more, and exited with 0
C16_Witness ==
    \E t \in Txns :
        /\ Exited(t, 0)
        /\ Len(result[t].res.Header) = 2
        /\ Len(result[t].out) > 3
        /\ result[t].res.Header[1].k # result[t].res.Header[2].k

\* the placeholders expandCommand knows
Recognized ==
    {"{auth_user}", "{source_ip}", "{source_host}", "{source_rdns}",
     "{msg_id}", "{sender}", "{rcpts}", "{address}"}

\* C17: in the arguments of every call of run, a bracketed token that is
\* not a recognized placeholder stands unchanged, no recognized token is
\* left (also where several stand in one argument, each replaced by its
\* value), and the arguments are as many as the templates and in their order.
C17_ExpansionKeepsShape ==
    \A t \in Txns :
        Invoked(t) =>
            LET conn == states[t].msgMeta.Conn
                user == IF conn = None THEN <<>> ELSE conn[1].AuthUser
                ip == IF conn = None \/ conn[1].RemoteAddr.net # "tcp" THEN <<>>
                      ELSE <<conn[1].RemoteAddr.IP>>
            IN /\ Len(call[t].args) = Len(check.cmdArgs)
               /\ Expansions(t, <<"{bogus}", "{}", "{rcpt}">>) =
                     {<<"{bogus}", "{}", "{rcpt}">>}
               /\ Expansions(t, <<"-a">>) = {<<"-a">>}
               /\ \A i \in DOMAIN call[t].args : \A j \in DOMAIN call[t].args[i] :
                     call[t].args[i][j] \notin Recognized
               /\ Expansions(t, <<"{auth_user}", "{source_ip}", "{msg_id}">>) =
                     {user \o ip \o states[t].msgMeta.ID}
               /\ call[t].ev = Len(events[t]) =>
                     Expansions(t, <<"{sender}", "/", "{address}">>) =
                        {states[t].mailFrom \o <<"/">> \o InvokedEvent(t).addr}

\* a call for a recipient of a message from an authenticated user on a TCP
\* connection: every placeholder of the template has a value
C17_Witness ==
    \E t \in Txns :
        /\ Invoked(t)
        /\ call[t].ev = Len(events[t])
        /\ InvokedEvent(t).kind = "rcpt"
        /\ states[t].mailFrom # <<>>
        /\ states[t].msgMeta.Conn # None
        /\ states[t].msgMeta.Conn[1].RemoteAddr.net = "tcp"
        /\ states[t].msgMeta.Conn[1].AuthUser # <<>>
        /\ Len(check.cmdArgs) >= 8

\* the last handler of t returned from a run whose child was started and
\* was not seen to end: cmd.Wait was not reached, or it failed
ReturnedWithChildAlive(t) ==
    /\ result[t].started
    /\ \/ result[t].status = None
       \/ result[t].status[1].kind = "waitfail"

\* C18: the interrupt signal is sent to the child exactly when run returns
\* an error after the child was started and while the child may still be
\* running; a return after the header was read and cmd.Wait has completed
\* sends no signal, and neither does a return before a child was started.
C18_InterruptOnEarlyReturnOnly ==
    \A t \in Txns :
        /\ result[t].signalled <=> ReturnedWithChildAlive(t)
        /\ ReturnedWithChildAlive(t) =>
              /\ HasReason(t)
              /\ Reason(t).Code = 450
              /\ result[t].res.Reject
        /\ (result[t].status # None /\ result[t].status[1].kind \in {"exit", "signal"}) =>
              /\ result[t].steps = <<"start", "read", "wait", "classify">>
              /\ ~result[t].signalled

\* run has returned on a malformed header and the child was sent the signal
C18_Witness ==
    \E t \in Txns :
        /\ result[t].signalled
        /\ result[t].steps = <<"start", "read">>
        /\ HasReason(t)
        /\ Reason(t).Err = "header"

\* C19: in a run that starts a child, the header read completes before the
\* wait begins, the wait completes before the classification, and the
\* classification before the CheckResult is returned; no CheckResult is
\* returned for a started child without a wait before it.
C19_ReadWaitClassifyReturn ==
    \A t \in Txns :
        /\ call[t].pc = "reading" => call[t].steps = <<"start">>
        /\ call[t].pc = "waiting" => call[t].steps = <<"start", "read">>
        /\ result[t].started =>
              result[t].steps = <<"start", "read", "wait", "classify">>

\* C20: every child run has started is waited for before run returns, on
\* the malformed-header return too: no handler has returned from a run that
\* started a child and did not call cmd.Wait.
C20_StartedChildIsWaited ==
    \A t \in Txns :
        (Returned(t) /\ result[t].started) => result[t].waited

====
